---------------------------- MODULE Spec2Model ----------------------------
(* A model of the bucketize crate (src/src/lib.rs): a Bucketizer holds an   *)
(* ordered Vec of buckets (Option<T>, Option<T>, T); bucket() pushes one at  *)
(* the end, bucketize() scans them in order and returns the value of the     *)
(* first bucket the input fits in, or None.                                  *)
EXTENDS Integers, Sequences, FiniteSets

(* ------------------------------ bounds --------------------------------- *)

\* The ordered numbers of T are 0..MaxNum.
MaxNum == 1

\* bucket() is called at most MaxBuckets times.
MaxBuckets == 2

(* --------------------------- the type T -------------------------------- *)

\* T: PartialOrd + Copy, instantiated as in the tests with a floating-point
\* type: a chain of ordered numbers and one NaN, unordered with everything
\* (itself included). NaN is encoded as the integer just above the numbers.
Nums == 0..MaxNum

NaN == MaxNum + 1

T == Nums \cup {NaN}

\* Option<T>
None == <<>>

Some(x) == <<x>>

OptionT == {None} \cup {Some(x) : x \in T}

\* The values given to buckets. A value is only stored and returned, never
\* compared: two distinct ones tell the answers of different buckets apart.
Values == {0, 1}

\* Bucket<T> = (Option<T>, Option<T>, T)
Bucket == OptionT \X OptionT \X Values

\* A faulty variant of partial_cmp: NaN compared as an ordinary number.
partial_cmp_total(a, b) ==
    IF a < b THEN Some("Less") ELSE IF a = b THEN Some("Equal") ELSE Some("Greater")

\* PartialOrd::partial_cmp of T: None when either side is NaN.
partial_cmp(a, b) ==
    IF a = NaN \/ b = NaN THEN None
    ELSE IF a < b THEN Some("Less")
    ELSE IF a = b THEN Some("Equal")
    ELSE Some("Greater")

\* input >= min
ge(a, b) == partial_cmp(a, b) \in {Some("Greater"), Some("Equal")}

\* input < max
lt(a, b) == partial_cmp(a, b) = Some("Less")

(* --------------------------- the program ------------------------------- *)

VARIABLES
    buckets,   \* Bucketizer.buckets: Vec<Bucket<T>>
    call,      \* the last call made on the Bucketizer, with its arguments
    ret,       \* what the last bucketize call returned (None after new/bucket)
    log        \* history: the arguments of the bucket() calls so far, in call order

vars == <<buckets, call, ret, log>>

\* Bucketizer::new: no buckets.
new == <<>>

\* A faulty variant of push: the element goes to the front.
push_front(vec, elem) == <<elem>> \o vec

\* Vec::push
push(vec, elem) == Append(vec, elem)

\* A faulty variant of matches: max is inclusive (input <= max).
matches_closed(b, input) ==
    IF b[1] = None /\ b[2] = None THEN TRUE
    ELSE IF b[2] = None THEN ge(input, b[1][1])
    ELSE IF b[1] = None THEN ge(b[2][1], input)
    ELSE ge(input, b[1][1]) /\ ge(b[2][1], input)

\* A faulty variant of matches: the (None, None) arm refuses NaN.
matches_nan_checked(b, input) ==
    IF b[1] = None /\ b[2] = None THEN input # NaN
    ELSE IF b[2] = None THEN ge(input, b[1][1])
    ELSE IF b[1] = None THEN lt(input, b[2][1])
    ELSE ge(input, b[1][1]) /\ lt(input, b[2][1])

\* The arms of `match *bucket` in bucketize: does input fit in the bucket?
matches(b, input) ==
    IF b[1] = None /\ b[2] = None THEN TRUE
    ELSE IF b[2] = None THEN ge(input, b[1][1])
    ELSE IF b[1] = None THEN lt(input, b[2][1])
    ELSE ge(input, b[1][1]) /\ lt(input, b[2][1])

\* A faulty variant of first_match: the last bucket that matches wins.
RECURSIVE last_match(_, _, _)
last_match(bs, i, input) ==
    IF i > Len(bs) THEN 0
    ELSE LET later == last_match(bs, i + 1, input)
         IN  IF later # 0 THEN later
             ELSE IF matches(bs[i], input) THEN i ELSE 0

\* The loop `for bucket in &self.buckets`, from index i on: the index of the
\* bucket whose arm returns, 0 when the loop runs off the end.
RECURSIVE first_match(_, _, _)
first_match(bs, i, input) ==
    IF i > Len(bs) THEN 0
    ELSE IF matches(bs[i], input) THEN i
    ELSE first_match(bs, i + 1, input)

\* A faulty variant of bucketize: the input itself when no bucket matches.
bucketize_or_input(bs, input) ==
    LET i == first_match(bs, 1, input)
    IN  IF i = 0 THEN Some(input) ELSE Some(bs[i][3])

\* Bucketizer::bucketize(&self, input) -> Option<T>
bucketize(bs, input) ==
    LET i == first_match(bs, 1, input)
    IN  IF i = 0 THEN None ELSE Some(bs[i][3])

Init ==
    /\ buckets = new
    /\ call = [op |-> "new"]
    /\ ret = None
    /\ log = <<>>

\* b = b.bucket(min, max, value)
bucket(min, max, value) ==
    /\ Len(buckets) < MaxBuckets
    /\ buckets' = push(buckets, <<min, max, value>>)
    /\ call' = [op |-> "bucket", min |-> min, max |-> max, value |-> value]
    /\ ret' = None
    /\ log' = Append(log, <<min, max, value>>)

\* A faulty variant of bucketize_call: the matched bucket is removed.
bucketize_draining(input) ==
    /\ LET i == first_match(buckets, 1, input)
       IN  buckets' = IF i = 0 THEN buckets
                      ELSE SubSeq(buckets, 1, i - 1) \o SubSeq(buckets, i + 1, Len(buckets))
    /\ call' = [op |-> "bucketize", input |-> input]
    /\ ret' = bucketize(buckets, input)
    /\ log' = log

\* b.bucketize(input)
bucketize_call(input) ==
    /\ buckets' = buckets
    /\ call' = [op |-> "bucketize", input |-> input]
    /\ ret' = bucketize(buckets, input)
    /\ log' = log

Next ==
    \/ \E min \in OptionT, max \in OptionT, value \in Values : bucket(min, max, value)
    \/ \E input \in T : bucketize_call(input)

Spec == Init /\ [][Next]_vars

(* ------------------- the vocabulary of the claims ---------------------- *)

\* x >= lo and x < hi as the claims read them: false when either side is NaN.
AtLeast(x, lo) == x \in Nums /\ lo \in Nums /\ x >= lo

Below(x, hi) == x \in Nums /\ hi \in Nums /\ x < hi

\* The match rule: absent/absent always; lo only x >= lo; hi only x < hi;
\* both x >= lo and x < hi.
MatchRule(b, x) ==
    /\ b[1] # None => AtLeast(x, b[1][1])
    /\ b[2] # None => Below(x, b[2][1])

Indexes == 1..Len(buckets)

\* The indexes whose bounds satisfy the match rule for x.
Satisfying(x) == {i \in Indexes : MatchRule(buckets[i], x)}

\* No bucket before index i satisfies the match rule for x.
NoneBefore(i, x) == \A k \in 1..(i - 1) : ~MatchRule(buckets[k], x)

\* The claims speak of every bucket sequence built by appends and every
\* input. They are stated of the result r for input x in two kinds of state:
\* after new() or bucket(), of what bucketize returns for every input; after
\* a bucketize call, of what that call returned for its input.
Built == call.op # "bucketize"

Called == call.op = "bucketize"

\* The bucket at index i answers x: it is the one whose arm returns.
AnsweredBy(i, x) == first_match(buckets, 1, x) = i

\* Both bounds present, both numbers, lo < hi.
ProperRange(b) ==
    /\ b[1] # None /\ b[2] # None
    /\ b[1][1] \in Nums /\ b[2][1] \in Nums
    /\ b[1][1] < b[2][1]

(* ------------------------------- C1 ------------------------------------ *)

\* The first-match rule for the result r of input x.
C1_At(x, r) ==
    /\ \A i \in Satisfying(x) : NoneBefore(i, x) => r = Some(buckets[i][3])
    /\ r = None <=> Satisfying(x) = {}

\* C1: for every bucket sequence built by appends and every input x,
\* bucketize(x) is Some(value of bucket i) for the smallest index i whose
\* bounds satisfy the match rule, and None exactly when no bucket does; and
\* this is what a bucketize call returned.
C1_FirstMatchWins ==
    /\ Built => \A x \in T : C1_At(x, bucketize(buckets, x))
    /\ Called => C1_At(call.input, ret)

\* A call answered by the second of two buckets: the first does not match
\* the input, the second does.
C1_Witness ==
    /\ call.op = "bucketize"
    /\ Len(buckets) = 2
    /\ buckets[1][3] # buckets[2][3]
    /\ ~MatchRule(buckets[1], call.input)
    /\ MatchRule(buckets[2], call.input)
    /\ ret = Some(buckets[2][3])

(* ------------------------------- C2 ------------------------------------ *)

\* The half-open rule for the result r of input x.
C2_At(x, r) ==
    \A i \in Indexes :
        ProperRange(buckets[i]) =>
            /\ (x = buckets[i][1][1] /\ NoneBefore(i, x)) =>
                    r = Some(buckets[i][3]) /\ AnsweredBy(i, x)
            /\ x = buckets[i][2][1] =>
                    /\ ~AnsweredBy(i, x)
                    /\ (\A k \in Indexes \ {i} : ~MatchRule(buckets[k], x)) => r = None
                    /\ r # None => \E k \in Indexes \ {i} :
                                      MatchRule(buckets[k], x) /\ r = Some(buckets[k][3])

\* C2: buckets are half-open [lo, hi): for a bucket with both bounds present
\* and lo < hi, bucketize(lo) returns this bucket's value whenever no earlier
\* bucket matches lo, and bucketize(hi) is never answered by this bucket: it
\* is None unless some other bucket matches hi.
C2_HalfOpen ==
    /\ Built => \A x \in T : C2_At(x, bucketize(buckets, x))
    /\ Called => C2_At(call.input, ret)

\* bucketize(hi) asked of [lo, hi) followed by the adjacent [hi, ..): the
\* adjacent bucket answers.
C2_Witness ==
    /\ call.op = "bucketize"
    /\ Len(buckets) = 2
    /\ ProperRange(buckets[1])
    /\ buckets[2][1] = buckets[1][2]
    /\ buckets[2][2] = None
    /\ buckets[1][3] # buckets[2][3]
    /\ call.input = buckets[1][2][1]
    /\ ret = Some(buckets[2][3])

(* ------------------------------- C3 ------------------------------------ *)

\* Every input the bucket at j matches, the bucket at i matches too.
ContainedIn(j, i) == \A x \in T : MatchRule(buckets[j], x) => MatchRule(buckets[i], x)

\* Order sensitivity for the result r of input x.
C3_At(x, r) ==
    \A i \in Indexes : \A j \in Indexes :
        i < j =>
            /\ (MatchRule(buckets[i], x) /\ MatchRule(buckets[j], x)) =>
                    /\ ~AnsweredBy(j, x)
                    /\ NoneBefore(i, x) => r = Some(buckets[i][3])
            /\ ContainedIn(j, i) => ~AnsweredBy(j, x)

\* C3: when two buckets both match an input, the later one never answers it,
\* and the earlier one's value is returned unless a still earlier bucket
\* matches; a later bucket whose range is contained in an earlier bucket's
\* range answers no input at all.
C3_OrderSensitive ==
    /\ Built => \A x \in T : C3_At(x, bucketize(buckets, x))
    /\ Called => C3_At(call.input, ret)

\* A narrower bucket appended after a wider one that contains it, asked for
\* an input both match: the wider, earlier one answers.
C3_Witness ==
    /\ call.op = "bucketize"
    /\ Len(buckets) = 2
    /\ ContainedIn(2, 1) /\ ~ContainedIn(1, 2)
    /\ buckets[1][3] # buckets[2][3]
    /\ MatchRule(buckets[2], call.input)
    /\ ret = Some(buckets[1][3])

(* ------------------------------- C4 ------------------------------------ *)

\* C4: bucket(min, max, value) appends exactly the triple (min, max, value)
\* at the end and changes nothing else: the stored sequence is always the
\* appended triples in call order, and across a bucket() call the earlier
\* sequence is a prefix of the later one and the length grows by exactly one
\* (nothing is reordered, removed, deduplicated or merged).
C4_AppendOnly ==
    /\ [](buckets = log)
    /\ [][call'.op = "bucket" =>
            /\ Len(buckets') = Len(buckets) + 1
            /\ SubSeq(buckets', 1, Len(buckets)) = buckets
            /\ buckets'[Len(buckets')] = <<call'.min, call'.max, call'.value>>]_vars
    /\ [][\A k \in 1..Len(buckets) :
            Len(buckets') >= Len(buckets) /\ buckets'[k] = buckets[k]]_vars

\* Two appends of the same range, the second a duplicate of the first, both
\* kept, in call order.
C4_Witness ==
    /\ call.op = "bucket"
    /\ Len(buckets) = 2
    /\ buckets[1][1] = buckets[2][1] /\ buckets[1][2] = buckets[2][2]
    /\ buckets[1][3] # buckets[2][3]
    /\ buckets[2] = <<call.min, call.max, call.value>>

(* ------------------------------- C5 ------------------------------------ *)

\* C5: bucketize is a pure read: a bucketize call leaves the bucket sequence
\* (and the history of appends) unchanged, whatever calls come between the
\* appends, and the result a call returned is the result a further call with
\* the same input returns on the sequence it left.
C5_PureRead ==
    /\ [][call'.op = "bucketize" => buckets' = buckets /\ log' = log]_vars
    /\ [](Called => ret = bucketize(buckets, call.input))

\* A call that found a match, with the matched bucket still in place.
C5_Witness ==
    /\ call.op = "bucketize"
    /\ Len(buckets) = 2
    /\ ret # None
    /\ \E i \in Indexes : MatchRule(buckets[i], call.input) /\ ret = Some(buckets[i][3])

(* ------------------------------- C6 ------------------------------------ *)

\* The open-ended rules for the result r of input x.
C6_At(x, r) ==
    /\ \A i \in Indexes :
        LET b == buckets[i]
        IN  /\ (b[1] = None /\ b[2] # None /\ Below(x, b[2][1])) => matches(b, x)
            /\ (b[1] # None /\ b[2] = None /\ AtLeast(x, b[1][1])) => matches(b, x)
            /\ (b[1] = None /\ b[2] = None) => matches(b, x)
            /\ (matches(b, x) /\ \A k \in 1..(i - 1) : ~matches(buckets[k], x))
                    => r = Some(b[3])
    /\ (Len(buckets) >= 1 /\ buckets[1][1] = None /\ buckets[1][2] = None)
            => r = Some(buckets[1][3])

\* C6: a bucket with absent lower bound matches every input < hi, one with
\* absent upper bound matches every input >= lo, one with both absent matches
\* every input (NaN included); a classifier whose first bucket has both
\* bounds absent returns that bucket's value for every input.
C6_OpenEnded ==
    /\ Built => \A x \in T : C6_At(x, bucketize(buckets, x))
    /\ Called => C6_At(call.input, ret)

\* NaN asked of a classifier whose first bucket has both bounds absent.
C6_Witness ==
    /\ call.op = "bucketize"
    /\ call.input = NaN
    /\ Len(buckets) = 2
    /\ buckets[1][1] = None /\ buckets[1][2] = None
    /\ buckets[1][3] # buckets[2][3]
    /\ ret = Some(buckets[1][3])

(* ------------------------------- C7 ------------------------------------ *)

\* A call with input x is accepted and its result r is well formed.
C7_At(x, r) ==
    /\ ENABLED bucketize_call(x)
    /\ buckets = <<>> => r = None
    /\ r \in {None} \cup {Some(buckets[i][3]) : i \in Indexes}

\* C7: a freshly constructed Bucketizer has no buckets and bucketize on it
\* returns None for every input; every call is accepted for every input and
\* ends with a well-formed Bucketizer and a result that is None or Some of a
\* bucket's value.
C7_EmptyAndNoError ==
    /\ call.op = "new" => buckets = <<>>
    /\ call.op \in {"new", "bucket", "bucketize"}
    /\ buckets \in Seq(Bucket)
    /\ Len(buckets) < MaxBuckets =>
        \A min \in OptionT, max \in OptionT, value \in Values : ENABLED bucket(min, max, value)
    /\ Built => \A x \in T : C7_At(x, bucketize(buckets, x))
    /\ Called => C7_At(call.input, ret)

\* bucketize on the fresh, empty Bucketizer.
C7_Witness ==
    /\ call.op = "bucketize"
    /\ buckets = <<>>
    /\ call.input \in Nums
    /\ ret = None

(* ------------------------------- C8 ------------------------------------ *)

\* Both bounds present, both numbers, lo >= hi.
DeadRange(b) ==
    /\ b[1] # None /\ b[2] # None
    /\ b[1][1] \in Nums /\ b[2][1] \in Nums
    /\ b[1][1] >= b[2][1]

RemoveAt(bs, i) == SubSeq(bs, 1, i - 1) \o SubSeq(bs, i + 1, Len(bs))

\* A dead bucket plays no part in the result r of input x.
C8_At(x, r) ==
    \A i \in Indexes :
        DeadRange(buckets[i]) =>
            /\ ~AnsweredBy(i, x)
            /\ r = bucketize(RemoveAt(buckets, i), x)

\* C8: a bucket whose lower bound is >= its upper bound is accepted and
\* stored like any other, but never matches: no input is answered by it, and
\* every input gets the result it would get with that bucket removed.
C8_DeadBucket ==
    /\ Len(buckets) < MaxBuckets =>
        \A lo \in Nums : \A hi \in Nums : \A value \in Values :
            lo >= hi => ENABLED bucket(Some(lo), Some(hi), value)
    /\ call.op = "bucket" => buckets[Len(buckets)] = <<call.min, call.max, call.value>>
    /\ Built => \A x \in T : C8_At(x, bucketize(buckets, x))
    /\ Called => C8_At(call.input, ret)

\* A stored bucket [lo, lo), asked for lo: the next bucket answers.
C8_Witness ==
    /\ call.op = "bucketize"
    /\ Len(buckets) = 2
    /\ DeadRange(buckets[1])
    /\ call.input = buckets[1][1][1]
    /\ buckets[1][3] # buckets[2][3]
    /\ ret = Some(buckets[2][3])

(* ------------------------------- C9 ------------------------------------ *)

BothAbsent(b) == b[1] = None /\ b[2] = None

\* C9 as stated: for the NaN input, bucketize matches no bucket and returns
\* None for every bucket sequence, also one that holds a bucket with both
\* bounds absent.
C9_NaNAlwaysNone ==
    (Called /\ call.input = NaN) => ret = None

\* What the NaN input gets as its result r.
C9_At(r) ==
    LET unbounded == {i \in Indexes : BothAbsent(buckets[i])}
    IN  /\ \A i \in Indexes : ~BothAbsent(buckets[i]) => ~matches(buckets[i], NaN)
        /\ r = None <=> unbounded = {}
        /\ \A i \in unbounded :
            (\A k \in unbounded : i <= k) => AnsweredBy(i, NaN) /\ r = Some(buckets[i][3])

\* C9 amended: the NaN input matches no bucket that has a bound present; it is
\* answered by the first bucket with both bounds absent, and gets None exactly
\* when the sequence holds no such bucket.
C9_NaNOnlyUnbounded ==
    /\ Built => C9_At(bucketize(buckets, NaN))
    /\ (Called /\ call.input = NaN) => C9_At(ret)

\* NaN asked of a bounded bucket followed by one with both bounds absent:
\* the second answers.
C9_Witness ==
    /\ call.op = "bucketize"
    /\ call.input = NaN
    /\ Len(buckets) = 2
    /\ buckets[1][1] # None /\ buckets[1][1][1] \in Nums
    /\ BothAbsent(buckets[2])
    /\ buckets[1][3] # buckets[2][3]
    /\ ret = Some(buckets[2][3])

(* ------------------------------- C10 ----------------------------------- *)

\* C10: appending never changes an answer already given: across every step
\* that changes the bucket sequence, an input answered Some(v) before is
\* answered Some(v) after, and an input answered None before is answered None
\* or Some of the appended bucket's value.
C10_AnswersStable ==
    [][buckets' # buckets =>
        \A x \in T :
            LET before == bucketize(buckets, x)
                after == bucketize(buckets', x)
            IN  /\ before # None => after = before
                /\ before = None =>
                    \/ after = None
                    \/ call'.op = "bucket" /\ after = Some(call'.value)]_vars

\* An append of a bucket that matches an input already answered by an earlier
\* bucket with another value.
C10_Witness ==
    /\ call.op = "bucket"
    /\ Len(buckets) = 2
    /\ buckets[1][3] # buckets[2][3]
    /\ \E x \in T :
        /\ MatchRule(buckets[1], x) /\ MatchRule(buckets[2], x)
        /\ bucketize(buckets, x) = Some(buckets[1][3])
    /\ \E x \in T :
        /\ ~MatchRule(buckets[1], x) /\ MatchRule(buckets[2], x)
        /\ bucketize(buckets, x) = Some(buckets[2][3])

=============================================================================
